---- MODULE Spec2Model ----
(***************************************************************************)
(* Model of src/main.py: the AutomationEngine.process_products pipeline     *)
(* (Takealot scraper -> pricing -> Makro listing API), its pure pricing     *)
(* helpers apply_charm_pricing and ProfitCalculator.calculate_optimal_price.*)
(*                                                                          *)
(* Money is held in mils (1/1000 rand), so a price of R449.95 is 449950.    *)
(* Text (titles, plids) is a sequence of one-character strings so that      *)
(* str.lower() is a real conversion.                                        *)
(***************************************************************************)
EXTENDS Integers, Sequences, FiniteSets, TLC

VARIABLES
    processed_plids,  \* AutomationEngine.processed_plids
    listings,         \* the destination's stored listings (GET/POST {base_url}listings)
    products,         \* the list search_products returns, the same in every run
    pc,               \* "idle" between runs, "loop" inside the for loop of process_products,
                      \* "crashed" once an exception has left process_products and main
    run,              \* number of process_products invocations started
    idx,              \* position of the for loop in products (1-based)
    created_count,    \* local created_count of the current run
    skipped_count,    \* local skipped_count of the current run
    clock,            \* wall clock in seconds, the value int(time.time()) reads
    calls,            \* calls made in the current run, in order: [op, p, result];
                      \* op "sleep" is the time.sleep(2) of the loop
    create_log,       \* per product index: the create requests sent for it, in order,
                      \* each with the answer and whether the product was counted as created
    arg,              \* argument of the pricing function being applied (SpecCharm, SpecPrice)
    res,              \* the values it returned
    stage             \* how far SpecCharm or SpecPrice has applied it

evars == <<processed_plids, listings, products, pc, run, idx, created_count,
           skipped_count, clock, calls, create_log>>
pvars == <<arg, res, stage>>
vars == <<processed_plids, listings, products, pc, run, idx, created_count,
          skipped_count, clock, calls, create_log, arg, res, stage>>

(***************************************************************************)
(* Bounds of the model                                                      *)
(***************************************************************************)
MaxRuns == 2          \* process_products invocations explored by Spec
MaxRetryRuns == 4     \* process_products invocations explored by SpecRetry
MaxSchedRuns == 3     \* process_products invocations explored by SpecSched
MaxSchedIntervals == 3   \* SpecSched: slow calls stop once the clock passes this many intervals
MaxAttempts == 4      \* largest max_attempts given to retry_with_backoff
MaxCharmSteps == 42000   \* SpecCharm: prices up to R2100 in steps of five cents
MaxPriceSteps == 6000    \* SpecPrice: source prices up to R1200 in steps of twenty cents

(***************************************************************************)
(* Program constants                                                        *)
(***************************************************************************)
Mil == 1000                                \* mils per rand
MAX_PRODUCTS_PER_RUN == 10
MIN_PRICE_FOR_CHEAP_PRODUCTS == 450
MARKUP_MULTIPLIER_TENTHS == 28             \* MARKUP_MULTIPLIER = 2.8
CHEAP_THRESHOLD == 200                     \* if takealot_price < 200
SCHEDULE_SECONDS == 600                    \* schedule.every(10).minutes
RATE_LIMIT_SLEEP == 2                      \* time.sleep(2) after a created listing
MAX_RETRY_ATTEMPTS == 3
RETRY_DELAY == 5
MIN_PROFIT_MARGIN_PERCENT == 15            \* MIN_PROFIT_MARGIN = 0.15
COMMISSION_PERCENT == 12                   \* COMMISSION_RATES['default'] = 0.12
PLATFORM_FEE_MONTHLY == 230
MONTHLY_SALES == 30                        \* monthly_sales=30
DEFAULT_WEIGHT_GRAMS == 1000               \* weight_grams=1000
MAX_ITERATIONS == 10                       \* for _ in range(10)
Nano == 1000000000                         \* billionths per rand

(***************************************************************************)
(* Text                                                                     *)
(***************************************************************************)
LowerChar(c) ==
    CASE c = "A" -> "a"
      [] c = "P" -> "p"
      [] OTHER -> c

\* str.lower()
Lower(s) == [i \in DOMAIN s |-> LowerChar(s[i])]

\* Python's None, apart from every text
None == <<"None">>

\* bool(x) of a text or None
Truthy(x) == x # None /\ x # <<>>

\* f'{x}' of a text or None
Str(x) == IF x = None THEN <<"N", "o", "n", "e">> ELSE x

(***************************************************************************)
(* The unchanged source list TakealotScraper.search_products returns        *)
(***************************************************************************)
Products ==
    << [plid |-> <<"P", "1">>, title |-> <<"A", "f">>, price |-> 150 * Mil],
       [plid |-> <<"P", "2">>, title |-> <<"z">>,      price |-> 0],
       [plid |-> <<"P", "3">>, title |-> <<>>,         price |-> 250 * Mil] >>

ProductIds == DOMAIN products

\* search_products, 'plid': what follows the last '/' of the link, None for a
\* link with no '/'
plid_of(href) ==
    IF \E i \in DOMAIN href : href[i] = "/"
    THEN LET last == CHOOSE i \in DOMAIN href :
                         /\ href[i] = "/"
                         /\ \A j \in DOMAIN href : j > i => href[j] # "/"
         IN  SubSeq(href, last + 1, Len(href))
    ELSE None

\* search_products: one product per card that has a title and a link
search_products(cards) ==
    [i \in DOMAIN cards |->
        [plid |-> plid_of(cards[i].href), title |-> cards[i].title, price |-> cards[i].price]]

\* Result cards of the source: the first two link to a page by a relative
\* path with no '/', the third by the usual path ending in its plid.
Cards ==
    << [title |-> <<"A", "f">>, price |-> 150 * Mil, href |-> <<"a">>],
       [title |-> <<"b">>,      price |-> 250 * Mil, href |-> <<"b">>],
       [title |-> <<"c">>,      price |-> 250 * Mil, href |-> <<"/", "c", "/", "P", "3">>] >>

\* A listing another seller process left on the destination: its model_id is
\* product 1's plid in lower case.
ForeignListing ==
    [title |-> <<"x">>, model_id |-> <<"p", "1">>, sku |-> <<>>, selling_price |-> 0, src |-> 0]

(***************************************************************************)
(* apply_charm_pricing                                                      *)
(***************************************************************************)
\* Python round(n / d): nearest integer, ties to even
RoundHalfEven(n, d) ==
    LET q == n \div d
        r == n % d
    IN  IF 2 * r < d THEN q
        ELSE IF 2 * r > d THEN q + 1
        ELSE IF q % 2 = 0 THEN q ELSE q + 1

apply_charm_pricing(price) ==
    IF price < 100 * Mil THEN RoundHalfEven(price - Mil, Mil) * Mil
    ELSE IF price < 300 * Mil THEN RoundHalfEven(price, 10 * Mil) * 10 * Mil - Mil
    ELSE IF price < 500 * Mil THEN RoundHalfEven(price, 5 * Mil) * 5 * Mil - 50
    ELSE IF price < 1000 * Mil THEN RoundHalfEven(price, 10 * Mil) * 10 * Mil - Mil
    ELSE IF price < 2000 * Mil THEN RoundHalfEven(price, 50 * Mil) * 50 * Mil - Mil
    ELSE RoundHalfEven(price, 100 * Mil) * 100 * Mil - Mil

Max(a, b) == IF a >= b THEN a ELSE b

\* process_products, "Calculate pricing with minimum price rule"
base_price(takealot_price) ==
    IF takealot_price < CHEAP_THRESHOLD * Mil
    THEN Max(MIN_PRICE_FOR_CHEAP_PRODUCTS * Mil,
             (takealot_price * MARKUP_MULTIPLIER_TENTHS) \div 10)
    ELSE (takealot_price * MARKUP_MULTIPLIER_TENTHS) \div 10

makro_price(takealot_price) == apply_charm_pricing(base_price(takealot_price))

\* 'sku': f'TA-{product.get("plid", "UNKNOWN")}-{int(time.time())}'
sku(plid, now) == <<"TA", Str(plid), now>>

(***************************************************************************)
(* MakroAPI                                                                 *)
(***************************************************************************)
LookupResponses == {"200", "404", "exception"}

\* check_duplicate taking a lookup that failed for a listing that exists
check_duplicate_failing_closed(stored, response, title, model_id) ==
    \/ response # "200"
    \/ \E i \in DOMAIN stored :
          \/ Lower(stored[i].title) = Lower(title)
          \/ /\ Truthy(model_id)
             /\ Lower(stored[i].model_id) = Lower(model_id)

\* MakroAPI.check_duplicate: True only when the GET answered 200 and a stored
\* listing has the title, or the model_id, in lower case.
check_duplicate(stored, response, title, model_id) ==
    /\ response = "200"
    /\ \E i \in DOMAIN stored :
          \/ Lower(stored[i].title) = Lower(title)
          \/ /\ Truthy(model_id)
             /\ Lower(stored[i].model_id) = Lower(model_id)

\* What the POST can come to:
\*   "201"      accepted, answered with the listing's JSON
\*   "timeout"  accepted by the destination, the answer never arrives (exception)
\*   "503"      rejected with an error status
\*   "302ok"    redirect, followed by the session, the final answer is 200 with JSON
\*   "302fail"  redirect, followed by the session, the final answer is an error
CreateResponses == {"201", "timeout", "503", "302ok", "302fail"}

Accepted(response) == response \in {"201", "timeout"}

\* The POST is accepted and answered 200 or 201 with JSON that is no object (a
\* non-empty list, a string): create_listing returns it, it is truthy, and
\* result.get(...) in process_products raises AttributeError, which nothing
\* catches.
AbortingResponses == {"201other"}

\* MakroAPI.create_listing: the value returned to process_products is truthy
create_listing(response) == response \in {"201", "302ok"}

Stored(p, payload) ==
    [title |-> payload.title, model_id |-> <<>>, sku |-> payload.sku,
     selling_price |-> payload.selling_price, src |-> p]

(***************************************************************************)
(* AutomationEngine                                                         *)
(***************************************************************************)
PureIdle ==
    /\ arg = 0
    /\ res = <<>>
    /\ stage = "none"

\* AutomationEngine.__init__, before main's first call of process_products
EngineInit(source, stored) ==
    /\ processed_plids = {}
    /\ listings = stored
    /\ products = source
    /\ pc = "idle"
    /\ run = 0
    /\ idx = 0
    /\ created_count = 0
    /\ skipped_count = 0
    /\ clock = 0
    /\ calls = <<>>
    /\ create_log = [p \in DOMAIN source |-> <<>>]

Init ==
    /\ \E stored \in {<<>>, <<ForeignListing>>} : EngineInit(Products, stored)
    /\ PureIdle

\* StartRunWithin as a scheduler that starts a due job in a thread of its own
\* would have it: the call is made whether or not the last one has returned
StartRunWithinThreaded(limit) ==
    /\ pc \in {"idle", "loop"}
    /\ run < limit
    /\ pc' = "loop"
    /\ run' = run + 1
    /\ idx' = 1
    /\ created_count' = 0
    /\ skipped_count' = 0
    /\ clock' = IF run = 0 THEN clock ELSE clock + SCHEDULE_SECONDS
    /\ calls' = <<>>
    /\ UNCHANGED <<processed_plids, listings, products, create_log>>
    /\ UNCHANGED pvars

\* main: the immediate call, then one call per schedule interval
StartRunWithin(limit) ==
    /\ pc = "idle"
    /\ run < limit
    /\ pc' = "loop"
    /\ run' = run + 1
    /\ idx' = 1
    /\ created_count' = 0
    /\ skipped_count' = 0
    /\ clock' = IF run = 0 THEN clock ELSE clock + SCHEDULE_SECONDS
    /\ calls' = <<>>
    /\ UNCHANGED <<processed_plids, listings, products, create_log>>
    /\ UNCHANGED pvars

StartRun == StartRunWithin(MaxRuns)

\* SkipProcessed with the duplicate lookup made before the processed test
SkipProcessedAfterLookup ==
    /\ pc = "loop"
    /\ idx <= Len(products)
    /\ products[idx].plid \in processed_plids
    /\ calls' = Append(calls, [op |-> "check_duplicate", p |-> idx, result |-> FALSE])
    /\ skipped_count' = skipped_count + 1
    /\ idx' = idx + 1
    /\ UNCHANGED <<processed_plids, listings, products, pc, run, created_count, clock,
                   create_log>>
    /\ UNCHANGED pvars

\* the for loop's body, "Skip if already processed"
SkipProcessed ==
    /\ pc = "loop"
    /\ idx <= Len(products)
    /\ products[idx].plid \in processed_plids
    /\ skipped_count' = skipped_count + 1
    /\ idx' = idx + 1
    /\ UNCHANGED <<processed_plids, listings, products, pc, run, created_count, clock,
                   calls, create_log>>
    /\ UNCHANGED pvars

\* SkipDuplicate without self.processed_plids.add(product.get('plid'))
SkipDuplicateUnmarked ==
    /\ pc = "loop"
    /\ idx <= Len(products)
    /\ products[idx].plid \notin processed_plids
    /\ \E lookup \in LookupResponses :
          check_duplicate(listings, lookup, products[idx].title, products[idx].plid)
    /\ calls' = Append(calls, [op |-> "check_duplicate", p |-> idx, result |-> TRUE])
    /\ skipped_count' = skipped_count + 1
    /\ idx' = idx + 1
    /\ UNCHANGED <<processed_plids, listings, products, pc, run, created_count, clock,
                   create_log>>
    /\ UNCHANGED pvars

\* the for loop's body, "Check for duplicates on Makro" answering True
SkipDuplicate ==
    /\ pc = "loop"
    /\ idx <= Len(products)
    /\ products[idx].plid \notin processed_plids
    /\ \E lookup \in LookupResponses :
          check_duplicate(listings, lookup, products[idx].title, products[idx].plid)
    /\ calls' = Append(calls, [op |-> "check_duplicate", p |-> idx, result |-> TRUE])
    /\ skipped_count' = skipped_count + 1
    /\ processed_plids' = processed_plids \cup {products[idx].plid}
    /\ idx' = idx + 1
    /\ UNCHANGED <<listings, products, pc, run, created_count, clock, create_log>>
    /\ UNCHANGED pvars

\* the for loop's body from the duplicate check answering False to the limit test
Publish ==
    /\ pc = "loop"
    /\ idx <= Len(products)
    /\ products[idx].plid \notin processed_plids
    /\ \E lookup \in LookupResponses, response \in CreateResponses :
          LET product == products[idx]
              payload == [title |-> product.title,
                          selling_price |-> makro_price(product.price),
                          sku |-> sku(product.plid, clock)]
              result == create_listing(response)
              created == IF result THEN created_count + 1 ELSE created_count
          IN  /\ ~check_duplicate(listings, lookup, product.title, product.plid)
              /\ calls' = calls \o
                    << [op |-> "check_duplicate", p |-> idx, result |-> FALSE],
                       [op |-> "get_product_details", p |-> idx, result |-> TRUE],
                       [op |-> "create_listing", p |-> idx, result |-> result] >>
                    \o (IF result
                        THEN << [op |-> "sleep", p |-> idx, result |-> TRUE] >>
                        ELSE << >>)
              /\ create_log' = [create_log EXCEPT ![idx] =
                                   Append(@, [run |-> run, sku |-> payload.sku,
                                              selling_price |-> payload.selling_price,
                                              response |-> response,
                                              counted |-> result])]
              /\ listings' = IF Accepted(response)
                             THEN Append(listings, Stored(idx, payload))
                             ELSE listings
              /\ created_count' = created
              /\ processed_plids' = IF result
                                    THEN processed_plids \cup {product.plid}
                                    ELSE processed_plids
              /\ clock' = clock + (IF result THEN RATE_LIMIT_SLEEP ELSE 0)
              /\ idx' = IF created >= MAX_PRODUCTS_PER_RUN
                        THEN Len(products) + 1
                        ELSE idx + 1
    /\ UNCHANGED <<products, pc, run, skipped_count>>
    /\ UNCHANGED pvars

\* the for loop's body from the duplicate check answering False to
\* listing_id = result.get('id'), which raises: process_products never
\* returns, and main, which catches nothing, ends with it
PublishAbort ==
    /\ pc = "loop"
    /\ idx <= Len(products)
    /\ products[idx].plid \notin processed_plids
    /\ \E lookup \in LookupResponses, response \in AbortingResponses :
          LET product == products[idx]
              payload == [title |-> product.title,
                          selling_price |-> makro_price(product.price),
                          sku |-> sku(product.plid, clock)]
          IN  /\ ~check_duplicate(listings, lookup, product.title, product.plid)
              /\ calls' = calls \o
                    << [op |-> "check_duplicate", p |-> idx, result |-> FALSE],
                       [op |-> "get_product_details", p |-> idx, result |-> TRUE],
                       [op |-> "create_listing", p |-> idx, result |-> TRUE] >>
              /\ create_log' = [create_log EXCEPT ![idx] =
                                   Append(@, [run |-> run, sku |-> payload.sku,
                                              selling_price |-> payload.selling_price,
                                              response |-> response,
                                              counted |-> FALSE])]
              /\ listings' = Append(listings, Stored(idx, payload))
    /\ pc' = "crashed"
    /\ UNCHANGED <<processed_plids, products, run, idx, created_count, skipped_count,
                   clock>>
    /\ UNCHANGED pvars

\* the loop is over: the summary is printed and process_products returns
EndRun ==
    /\ pc = "loop"
    /\ idx > Len(products)
    /\ pc' = "idle"
    /\ UNCHANGED <<processed_plids, listings, products, run, idx, created_count,
                   skipped_count, clock, calls, create_log>>
    /\ UNCHANGED pvars

Next == StartRun \/ SkipProcessed \/ SkipDuplicate \/ Publish \/ PublishAbort \/ EndRun

Spec == Init /\ [][Next]_vars

(***************************************************************************)
(* One product, more runs: the same engine followed over MaxRetryRuns runs  *)
(***************************************************************************)
InitRetry ==
    /\ EngineInit(SubSeq(Products, 1, 1), <<>>)
    /\ PureIdle

StartRunRetry == StartRunWithin(MaxRetryRuns)

NextRetry ==
    StartRunRetry \/ SkipProcessed \/ SkipDuplicate \/ Publish \/ PublishAbort \/ EndRun

SpecRetry == InitRetry /\ [][NextRetry]_vars

(***************************************************************************)
(* The engine on a source list built from result cards                      *)
(***************************************************************************)
InitScraped ==
    /\ EngineInit(search_products(Cards), <<>>)
    /\ PureIdle

SpecScraped == InitScraped /\ [][Next]_vars

(***************************************************************************)
(* Slow runs: the session's requests carry no timeout, so a call inside a   *)
(* run may last a whole schedule interval or more.                          *)
(***************************************************************************)
InitSched ==
    /\ EngineInit(SubSeq(Products, 1, 1), <<>>)
    /\ PureIdle

StartRunSched == StartRunWithin(MaxSchedRuns)

\* a request of the run in progress takes SCHEDULE_SECONDS to answer
SlowCall ==
    /\ pc = "loop"
    /\ clock < MaxSchedIntervals * SCHEDULE_SECONDS
    /\ clock' = clock + SCHEDULE_SECONDS
    /\ UNCHANGED <<processed_plids, listings, products, pc, run, idx, created_count,
                   skipped_count, calls, create_log>>
    /\ UNCHANGED pvars

NextSched ==
    \/ StartRunSched
    \/ SkipProcessed
    \/ SkipDuplicate
    \/ Publish
    \/ PublishAbort
    \/ EndRun
    \/ SlowCall

SpecSched == InitSched /\ [][NextSched]_vars

(***************************************************************************)
(* apply_charm_pricing as a function of its own: SpecCharm applies it to a  *)
(* price and then to its own result.                                        *)
(***************************************************************************)
\* prices from R0.00 to R(MaxCharmSteps / 20) in steps of five cents: every
\* bucket of apply_charm_pricing, its edges and the halves round() ties on
CharmInputs == {50 * k : k \in 0..MaxCharmSteps}

InitCharm ==
    /\ EngineInit(<<>>, <<>>)
    /\ arg \in CharmInputs
    /\ res = <<>>
    /\ stage = "charm"

CharmOnce ==
    /\ stage = "charm"
    /\ res' = <<apply_charm_pricing(arg)>>
    /\ stage' = "charmed"
    /\ UNCHANGED arg
    /\ UNCHANGED evars

CharmTwice ==
    /\ stage = "charmed"
    /\ res' = Append(res, apply_charm_pricing(res[1]))
    /\ stage' = "recharmed"
    /\ UNCHANGED arg
    /\ UNCHANGED evars

NextCharm == CharmOnce \/ CharmTwice

SpecCharm == InitCharm /\ [][NextCharm]_vars

(***************************************************************************)
(* RetryHandler.retry_with_backoff                                          *)
(*                                                                          *)
(* arg is max_attempts; res holds the loop variable attempt, the calls of   *)
(* func and the sleeps in the order they were made, and what the handler    *)
(* returned or raised.  One action is one iteration of the for loop.        *)
(***************************************************************************)
\* what a call of func may return
Values == {"None", "value"}

\* what a call of func may raise and `except Exception` catches
Exceptions == {"ConnectionError", "Timeout", "ValueError"}

\* what a call of func may raise and `except Exception` lets through
Interrupts == {"KeyboardInterrupt"}

FuncCall(out) == [ev |-> "call", out |-> out, secs |-> 0]

Sleep(secs) == [ev |-> "sleep", out |-> "", secs |-> secs]

\* wait_time with the exponent counted from one instead of from zero
wait_time_from_one(attempt) == RETRY_DELAY * 2^(attempt + 1)

wait_time(attempt) == RETRY_DELAY * 2^attempt

InitBackoff ==
    /\ EngineInit(<<>>, <<>>)
    /\ arg \in 1..MaxAttempts
    /\ res = [attempt |-> 0, events |-> <<>>, returned |-> <<>>, raised |-> <<>>]
    /\ stage = "retry"

\* try: return func(*args, **kwargs)
AttemptReturns ==
    /\ stage = "retry"
    /\ \E v \in Values :
          res' = [res EXCEPT !.events = Append(@, FuncCall(v)), !.returned = <<v>>]
    /\ stage' = "returned"
    /\ UNCHANGED arg
    /\ UNCHANGED evars

\* except Exception: raise on the last attempt, sleep and go round otherwise
AttemptFails ==
    /\ stage = "retry"
    /\ \E e \in Exceptions :
          IF res.attempt = arg - 1
          THEN /\ res' = [res EXCEPT !.events = Append(@, FuncCall(e)), !.raised = <<e>>]
               /\ stage' = "raised"
          ELSE /\ res' = [res EXCEPT
                              !.events = @ \o <<FuncCall(e), Sleep(wait_time(res.attempt))>>,
                              !.attempt = @ + 1]
               /\ stage' = "retry"
    /\ UNCHANGED arg
    /\ UNCHANGED evars

\* an exception that is no Exception leaves the handler at once
AttemptInterrupted ==
    /\ stage = "retry"
    /\ \E e \in Interrupts :
          res' = [res EXCEPT !.events = Append(@, FuncCall(e)), !.raised = <<e>>]
    /\ stage' = "raised"
    /\ UNCHANGED arg
    /\ UNCHANGED evars

NextBackoff == AttemptReturns \/ AttemptFails \/ AttemptInterrupted

SpecBackoff == InitBackoff /\ [][NextBackoff]_vars

(***************************************************************************)
(* ProfitCalculator                                                         *)
(*                                                                          *)
(* The floats of calculate_optimal_price are held as <<rand, nano>>: whole  *)
(* rand and billionths of a rand, 0 <= nano < Nano.  The margin test misses *)
(* by more than 2 * 10^-7 rand in each of the ten iterations, so a          *)
(* resolution of 10^-9 rand decides it as the doubles do.                   *)
(***************************************************************************)
FxNorm(hi, lo) == <<hi + (lo \div Nano), lo % Nano>>

FxAdd(a, b) == FxNorm(a[1] + b[1], a[2] + b[2])

FxGeq(a, b) == a[1] > b[1] \/ (a[1] = b[1] /\ a[2] >= b[2])

\* a price in cents
FxFromCents(c) == FxNorm(c \div 100, (c % 100) * (Nano \div 100))

\* a value in 1/10000 rand
FxFromTenThousandths(v) == FxNorm(v \div 10000, (v % 10000) * (Nano \div 10000))

\* a * percent / 100
FxPercent(a, percent) ==
    LET whole == percent * a[1]
        u == a[2] \div 100
        v == a[2] % 100
    IN  FxNorm(whole \div 100,
               (whole % 100) * (Nano \div 100) + percent * u + ((percent * v) \div 100))

\* n / d for integers n >= 0, d > 0
FxDiv(n, d) ==
    LET r0 == (n % d) * 10000
        r1 == (r0 % d) * 100000
    IN  <<n \div d, (r0 \div d) * 100000 + (r1 \div d)>>

\* ProfitCalculator.estimate_transport_fee
estimate_transport_fee(weight_grams) ==
    IF weight_grams <= 1000 THEN 35
    ELSE IF weight_grams <= 15000 THEN 50
    ELSE IF weight_grams <= 30000 THEN 75
    ELSE IF weight_grams <= 60000 THEN 100
    ELSE IF weight_grams <= 150000 THEN 135
    ELSE 200

\* ProfitCalculator.calculate_makro_fees(selling_price)['total'] with the
\* default category, weight and monthly sales
calculate_makro_fees(selling_price) ==
    LET commission_fee == FxPercent(selling_price, COMMISSION_PERCENT)
        transport_fee == <<estimate_transport_fee(DEFAULT_WEIGHT_GRAMS), 0>>
        platform_fee_per_product == FxDiv(PLATFORM_FEE_MONTHLY, Max(MONTHLY_SALES, 1))
    IN  FxAdd(FxAdd(commission_fee, transport_fee), platform_fee_per_product)

\* actual_margin >= min_margin, with actual_margin = net_profit / takealot_price
\* for takealot_price > 0 and 0 otherwise; price and takealot_price as <<rand, nano>>
margin_met(takealot_cents, price) ==
    /\ takealot_cents > 0
    /\ FxGeq(price,
             FxAdd(FxAdd(FxFromCents(takealot_cents), calculate_makro_fees(price)),
                   FxFromTenThousandths(takealot_cents * MIN_PROFIT_MARGIN_PERCENT)))

\* the for loop of calculate_optimal_price: the value target_price has after it
RECURSIVE find_price(_, _, _, _)
find_price(takealot_cents, target_price, attempt_price, left) ==
    IF left = 0 THEN target_price
    ELSE IF margin_met(takealot_cents, attempt_price) THEN attempt_price
    ELSE find_price(takealot_cents, target_price,
                    FxAdd(target_price, calculate_makro_fees(attempt_price)), left - 1)

\* "Apply charm pricing" of calculate_optimal_price; the result is in cents
charm_cents(target_price) ==
    IF target_price[1] < 100
    THEN LET y == FxAdd(target_price, <<-1, Nano - (Nano \div 100)>>)
         IN  y[1] * 100 + RoundHalfEven(y[2], Nano \div 100)
    ELSE IF target_price[1] < 1000
    THEN target_price[1] * 100 + 99
    ELSE (target_price[1] \div 10) * 1000 + 999

\* ProfitCalculator.calculate_optimal_price(takealot_price), in cents.  1.15 is
\* no double: the product takealot_price * (1 + min_margin) is the double
\* nearest to it, which may lie below the exact product (100 * 1.15 is
\* 114.99999999999999); slip is that shortfall in nano.
calculate_optimal_price(takealot_cents, slip) ==
    LET exact == FxFromTenThousandths(takealot_cents * (100 + MIN_PROFIT_MARGIN_PERCENT))
        target_price == FxAdd(exact, <<0, 0 - slip>>)
    IN  charm_cents(find_price(takealot_cents, target_price, target_price, MAX_ITERATIONS))

\* calculate_optimal_price returns the price alone: nothing it returns carries
\* a margin_not_guaranteed flag
margin_not_guaranteed(result) == FALSE

\* source prices from R0.20 in steps of twenty cents
SourcePrices == {20 * k : k \in 1..MaxPriceSteps}

InitPrice ==
    /\ EngineInit(<<>>, <<>>)
    /\ arg \in SourcePrices
    /\ res = <<>>
    /\ stage = "price"

PriceIt ==
    /\ stage = "price"
    /\ \E slip \in {0, 1} : res' = <<calculate_optimal_price(arg, slip)>>
    /\ stage' = "priced"
    /\ UNCHANGED arg
    /\ UNCHANGED evars

NextPrice == PriceIt

SpecPrice == InitPrice /\ [][NextPrice]_vars

(***************************************************************************)
(* Properties                                                               *)
(***************************************************************************)
\* the listings the destination stores that came from product p's requests
ListingsOf(p) == {i \in DOMAIN listings : listings[i].src = p}

\* a product with a positive price and a title
Eligible(p) == products[p].price > 0 /\ products[p].title # <<>>

Redirected(response) == response \in {"302ok", "302fail"}

\* the create requests sent for product p in run r
AttemptsIn(p, r) == {i \in DOMAIN create_log[p] : create_log[p][i].run = r}

\* run r is past product p
Past(p, r) == run > r \/ (run = r /\ (pc = "idle" \/ idx > p))

\* C1: over any number of runs on the unchanged source list, and whatever the
\* destination answered in earlier runs, the destination never holds two
\* listings created for the same eligible source product.
C1_IdempotentReRun ==
    \A p \in ProductIds : Eligible(p) => Cardinality(ListingsOf(p)) <= 1

\* C2: all create requests sent for one source product carry the same
\* idempotency key (the sku of the payload), whenever they are sent.
C2_SameIdempotencyKey ==
    \A p \in ProductIds :
        \A i, j \in DOMAIN create_log[p] : create_log[p][i].sku = create_log[p][j].sku

\* C3: for every source price > 0 the price calculate_optimal_price returns
\* leaves a margin of at least min_margin after the fees at that price, unless
\* the result is flagged margin_not_guaranteed.
C3_MarginGuarantee ==
    stage = "priced" =>
        \/ margin_met(arg, FxFromCents(res[1]))
        \/ margin_not_guaranteed(res[1])

\* C4: for a source price below the low-price threshold (R150 and R0 here) the
\* selling price sent to create_listing is at least the floor of R450.
C4_PriceFloor ==
    \A p \in ProductIds :
        products[p].price < CHEAP_THRESHOLD * Mil =>
            \A i \in DOMAIN create_log[p] :
                create_log[p][i].selling_price >= MIN_PRICE_FOR_CHEAP_PRODUCTS * Mil

\* C5: charm pricing is stable: applying apply_charm_pricing to its own result
\* gives that result again.
C5_CharmStable == stage = "recharmed" => res[2] = res[1]

\* C6: for a product whose price is not positive or whose title is empty no
\* price is computed and no create request is ever sent.
C6_InvalidInputRejected ==
    \A p \in ProductIds :
        (products[p].price <= 0 \/ products[p].title = <<>>) => create_log[p] = <<>>

\* C7: when every create request for a product in a run is answered 503, that
\* run makes exactly MAX_RETRY_ATTEMPTS create requests for the product.
C7_RetryBound ==
    \A p \in ProductIds : \A r \in 1..run :
        ( /\ Past(p, r)
          /\ AttemptsIn(p, r) # {}
          /\ \A i \in AttemptsIn(p, r) : create_log[p][i].response = "503" )
        => Cardinality(AttemptsIn(p, r)) = MAX_RETRY_ATTEMPTS

\* C8: a create request answered with a redirect is the last one ever sent for
\* its product, and the product is not counted or marked as listed for it.
C8_RedirectSafety ==
    \A p \in ProductIds : \A i \in DOMAIN create_log[p] :
        Redirected(create_log[p][i].response) =>
            /\ ~create_log[p][i].counted
            /\ i = Len(create_log[p])

\* C9: a product whose create failed is tried again in later runs only up to
\* the configured maximum: no product ever gets more than MAX_RETRY_ATTEMPTS
\* create requests.
C9_AttemptsCapped ==
    \A p \in ProductIds : Len(create_log[p]) <= MAX_RETRY_ATTEMPTS

\* C10: within a run every create_listing call comes after a check_duplicate
\* call for the same product that reported no listing; a product whose lookup
\* reported a listing gets no create_listing call in that run, is counted as
\* skipped and is in processed_plids.
C10_DuplicateCheckFirst ==
    /\ \A j \in DOMAIN calls :
          calls[j].op = "create_listing" =>
              \E i \in 1..(j - 1) :
                  /\ calls[i].op = "check_duplicate"
                  /\ calls[i].p = calls[j].p
                  /\ ~calls[i].result
    /\ \A j \in DOMAIN calls :
          (calls[j].op = "check_duplicate" /\ calls[j].result) =>
              /\ products[calls[j].p].plid \in processed_plids
              /\ \A k \in DOMAIN calls :
                    calls[k].op = "create_listing" => calls[k].p # calls[j].p
    /\ Cardinality({j \in DOMAIN calls : calls[j].op = "check_duplicate" /\ calls[j].result})
          <= skipped_count

\* a run in which one product's lookup reported a listing and another
\* product went on to create_listing
C10_Witness ==
    /\ \E j \in DOMAIN calls : calls[j].op = "check_duplicate" /\ calls[j].result
    /\ \E k \in DOMAIN calls : calls[k].op = "create_listing"

\* C11: when the lookup fails (an error status or an exception)
\* check_duplicate answers False whatever the destination stores, so the
\* product at the loop's position goes on to create_listing: the step that
\* calls create_listing is enabled and the run is not stopped.
C11_LookupFailureProceeds ==
    (pc = "loop" /\ idx <= Len(products) /\ products[idx].plid \notin processed_plids) =>
        /\ \A lookup \in LookupResponses \ {"200"} :
              ~check_duplicate(listings, lookup, products[idx].title, products[idx].plid)
        /\ ENABLED Publish

\* a product with a stored listing of its own was sent to create_listing
\* again in this run: its lookup failed and it went on
C11_Witness ==
    \E j \in DOMAIN calls :
        /\ calls[j].op = "create_listing"
        /\ Cardinality(ListingsOf(calls[j].p)) >= 2

\* C12: no failure on a single product aborts a run: process_products is
\* never left by an exception, so every later product is processed and the
\* summary is reached.
C12_FailureIsolation == pc # "crashed"

\* C14: within a run, between any two create_listing calls the loop sleeps
\* its fixed delay, whether the earlier call succeeded or failed.
C14_DelayBetweenCreates ==
    \A i, j \in DOMAIN calls :
        (i < j /\ calls[i].op = "create_listing" /\ calls[j].op = "create_listing") =>
            \E k \in (i + 1)..(j - 1) : calls[k].op = "sleep"

\* C16: processed_plids only grows; a plid enters it in a step whose calls
\* include a create_listing that returned a result, or a check_duplicate that
\* reported a listing, for a product with that plid; and a product whose plid
\* is in processed_plids is passed with no call and no create request.
C16_ForwardOnly ==
    [][ /\ processed_plids \subseteq processed_plids'
        /\ \A x \in processed_plids' \ processed_plids :
              \E j \in DOMAIN calls' \ DOMAIN calls :
                  /\ products[calls'[j].p].plid = x
                  /\ calls'[j].op \in {"create_listing", "check_duplicate"}
                  /\ calls'[j].result
        /\ (pc = "loop" /\ idx <= Len(products) /\ products[idx].plid \in processed_plids)
              => (calls' = calls /\ create_log' = create_log /\ listings' = listings)
      ]_vars

\* the second run has passed the first product, whose plid is processed,
\* without a call
C16_Witness ==
    /\ run = 2
    /\ pc = "loop"
    /\ idx = 2
    /\ products[1].plid \in processed_plids
    /\ calls = <<>>

\* C13: process_products is entered only when no earlier invocation is
\* still running, however long the runs before it took.
C13_NoOverlap == [][run' # run => (pc = "idle" /\ pc' = "loop" /\ run' = run + 1)]_vars

\* the second invocation has just been entered after a first one that took
\* at least a whole schedule interval
C13_Witness ==
    /\ run = 2
    /\ pc = "loop"
    /\ idx = 1
    /\ clock >= 2 * SCHEDULE_SECONDS

\* the positions of the calls of func among the events of retry_with_backoff
CallsOfFunc == {i \in DOMAIN res.events : res.events[i].ev = "call"}

\* the number of the call at position i, counted from one
CallNumber(i) == Cardinality({j \in CallsOfFunc : j <= i})

\* C15: retry_with_backoff(max_attempts = n) calls func at most n times; the
\* first call that does not raise is the last one and its value is returned;
\* the k-th call that fails with an Exception, k < n, is followed by a sleep of
\* RETRY_DELAY * 2^(k-1) seconds and nothing else before the next call; the n-th
\* failed call is followed by no sleep and its exception is raised.
C15_RetryWithBackoff ==
        LET ev == res.events
            n == arg
        IN  /\ Cardinality(CallsOfFunc) <= n
            /\ \A i \in DOMAIN ev :
                  ev[i].ev = "sleep" => (i > 1 /\ i - 1 \in CallsOfFunc)
            /\ \A i \in CallsOfFunc :
                  LET k == CallNumber(i)
                  IN  /\ ev[i].out \in Values =>
                            /\ i = Len(ev)
                            /\ stage = "returned"
                            /\ res.returned = <<ev[i].out>>
                      /\ (ev[i].out \in Exceptions /\ k < n) =>
                            /\ i + 1 \in DOMAIN ev
                            /\ ev[i + 1] = Sleep(RETRY_DELAY * 2^(k - 1))
                            /\ i + 1 = Len(ev) => stage = "retry"
                            /\ i + 1 < Len(ev) => i + 2 \in CallsOfFunc
                      /\ (ev[i].out \in Exceptions /\ k = n) =>
                            /\ i = Len(ev)
                            /\ stage = "raised"
                            /\ res.raised = <<ev[i].out>>
                      /\ ev[i].out \in Interrupts =>
                            /\ i = Len(ev)
                            /\ stage = "raised"
                            /\ res.raised = <<ev[i].out>>
            /\ stage = "returned" => (ev # <<>> /\ ev[Len(ev)].out \in Values /\ res.raised = <<>>)
            /\ stage = "raised" => (ev # <<>> /\ ev[Len(ev)].ev = "call" /\ res.returned = <<>>)

\* max_attempts = 3, three failed calls with waits of 5 and 10 seconds between
\* them, and the third call's exception raised
C15_Witness ==
    /\ stage = "raised"
    /\ arg = MAX_RETRY_ATTEMPTS
    /\ Len(res.events) = 5
    /\ res.events[2] = Sleep(5)
    /\ res.events[4] = Sleep(10)
    /\ res.raised = <<res.events[5].out>>
    /\ res.raised[1] \in Exceptions

\* C17: a product is passed as already processed only if that product itself
\* was created by this engine or has a duplicate among the stored listings.
C17_SkippedOnlyForItself ==
    (pc = "loop" /\ idx <= Len(products) /\ products[idx].plid \in processed_plids) =>
        \/ \E i \in DOMAIN create_log[idx] : create_log[idx][i].counted
        \/ check_duplicate(listings, "200", products[idx].title, products[idx].plid)

====
